---- MODULE Spec2Model ----
(***************************************************************************)
(* Cli::etl_cmd of findora/src/commands.rs: the consensus-log pass, the    *)
(* application-log pass and the final report scan over a key-value store.  *)
(*                                                                         *)
(* Text is modelled by its tokens.  A token is a record [s, v]: a numeral  *)
(* is [s |-> "#", v |-> its value], any other text is [s |-> text].        *)
(* Option<T> is a sequence: None is <<>>, Some(x) is <<x>>.                *)
(* u64 is scaled to WordBits bits; i64 timestamps are never added to or    *)
(* subtracted from by the code and stay plain integers.                    *)
(***************************************************************************)
EXTENDS Integers, Sequences, FiniteSets, TLC

\* Width of the model's u64.
WordBits == 8
\* Longest consensus log and longest application log, in lines.
MaxTmLines == 2
MaxAbciLines == 2

U64_MAX == (2 ^ WordBits) - 1
U64_MIN == 0

None == <<>>
Some(x) == <<x>>
IsSome(o) == o # <<>>
Unwrap(o) == o[1]

Txt(t) == [s |-> t, v |-> 0]
Num(n) == [s |-> "#", v |-> n]

\* str::parse::<u64>().ok(): a numeral that fits in a u64, else None.
ParseU64(tok) ==
    IF tok.s = "#" /\ tok.v >= 0 /\ tok.v <= U64_MAX THEN Some(tok.v) ELSE None

\* NaiveDateTime::parse_from_str(time_str, ..).map(|dt| dt.timestamp()).ok():
\* a well-formed time is <<seconds, milliseconds>>; the milliseconds are dropped.
ParseTime(t) == IF Len(t) = 2 THEN Some(t[1]) ELSE None

----------------------------------------------------------------------------
\* BlockInfo and its serde_json form (the fields in declaration order).

\* A default BlockInfo whose block_time is Some(0), as for a plain u64 field.
DefaultBlockInfoZero ==
    [height |-> 0, timestamp |-> 0, txs |-> 0, valid_txs |-> 0, block_time |-> Some(0),
     begin |-> 0, snapshot |-> 0, end |-> 0, commit |-> 0, commit_evm |-> 0]

DefaultBlockInfo ==
    [height |-> 0, timestamp |-> 0, txs |-> 0, valid_txs |-> 0, block_time |-> None,
     begin |-> 0, snapshot |-> 0, end |-> 0, commit |-> 0, commit_evm |-> 0]

to_string(bi) ==
    <<bi.height, bi.timestamp, bi.txs, bi.valid_txs, bi.block_time,
      bi.begin, bi.snapshot, bi.end, bi.commit, bi.commit_evm>>

from_str(raw) ==
    [height |-> raw[1], timestamp |-> raw[2], txs |-> raw[3], valid_txs |-> raw[4],
     block_time |-> raw[5], begin |-> raw[6], snapshot |-> raw[7], end |-> raw[8],
     commit |-> raw[9], commit_evm |-> raw[10]]

\* Display with height and txs in each other's place.
DisplaySwapped(bi) ==
    <<bi.txs, IF IsSome(bi.block_time) THEN Unwrap(bi.block_time) ELSE 0,
      bi.height, bi.begin, bi.snapshot, bi.end, bi.commit, bi.commit_evm>>

\* impl Display for BlockInfo
Display(bi) ==
    <<bi.height, IF IsSome(bi.block_time) THEN Unwrap(bi.block_time) ELSE 0,
      bi.txs, bi.begin, bi.snapshot, bi.end, bi.commit, bi.commit_evm>>

----------------------------------------------------------------------------
\* The record store (crate::db::Db): get(key) and insert(key, bytes).

EmptyDb == [k \in {} |-> <<>>]

\* Db::get: Ok(bytes) for a stored key; Err for a missing key (NotFound) and
\* for a failed operation (Io).
DbGet(store, k, fails) ==
    IF fails THEN [ok |-> FALSE, err |-> "Io", val |-> <<>>]
    ELSE IF k \in DOMAIN store THEN [ok |-> TRUE, err |-> "", val |-> store[k]]
    ELSE [ok |-> FALSE, err |-> "NotFound", val |-> <<>>]

\* Db::insert: the store with the value written under the key.
DbInsert(store, k, raw) ==
    [x \in (DOMAIN store) \cup {k} |-> IF x = k THEN raw ELSE store[x]]

----------------------------------------------------------------------------
\* The consensus-log pass: one line of the tendermint log.
\* A line is [executed, sliceable, time, words]: whether it contains
\* "Executed block", whether l[2..25] is in range, the text of l[2..25], and
\* its whitespace-separated words, each split on '='.

RECURSIVE ScanWords(_, _)
ScanWords(words, blk) ==
    IF words = <<>> THEN blk
    ELSE LET kv == Head(words)
             next == IF Len(kv) # 2 THEN blk
                     ELSE IF kv[1].s = "height" THEN [blk EXCEPT ![2] = ParseU64(kv[2])]
                     ELSE IF kv[1].s = "validTxs" THEN [blk EXCEPT ![3] = ParseU64(kv[2])]
                     ELSE IF kv[1].s = "invalidTxs" THEN [blk EXCEPT ![4] = ParseU64(kv[2])]
                     ELSE blk
         IN  ScanWords(Tail(words), next)

\* blk after the word loop: <<timestamp, height, validTxs, invalidTxs>>.
ParseBlk(l) == ScanWords(l.words, <<ParseTime(l.time), None, None, None>>)

\* u64 + u64: past u64::MAX the addition panics when the build checks
\* overflow (debug) and wraps when it does not (release).
AddU64(a, b, checks) ==
    IF a + b <= U64_MAX THEN [panic |-> FALSE, val |-> a + b]
    ELSE IF checks THEN [panic |-> TRUE, val |-> 0]
    ELSE [panic |-> FALSE, val |-> (a + b) % (U64_MAX + 1)]

\* NewBlockInfo with unwrap_or_default() for unwrap(): a field that cannot be
\* read is 0.
NewBlockInfoLenient(l, checks) ==
    LET blk == ParseBlk(l)
        val(o) == IF o = None THEN 0 ELSE Unwrap(o)
        sum == AddU64(val(blk[3]), val(blk[4]), checks)
    IN  [panic |-> sum.panic,
         bi |-> [DefaultBlockInfo EXCEPT !.height = val(blk[2]),
                                         !.timestamp = val(blk[1]),
                                         !.txs = sum.val,
                                         !.valid_txs = val(blk[3])]]

\* let bi = BlockInfo { .. }: panics on a slice out of range, on an unwrap of
\* None and on a checked overflow.
NewBlockInfo(l, checks) ==
    LET blk == ParseBlk(l)
    IN  IF ~l.sliceable \/ \E n \in 1..4 : blk[n] = None
        THEN [panic |-> TRUE, bi |-> DefaultBlockInfo]
        ELSE LET sum == AddU64(Unwrap(blk[3]), Unwrap(blk[4]), checks)
             IN  [panic |-> sum.panic,
                  bi |-> [DefaultBlockInfo EXCEPT !.height = Unwrap(blk[2]),
                                                  !.timestamp = Unwrap(blk[1]),
                                                  !.txs = sum.val,
                                                  !.valid_txs = Unwrap(blk[3])]]

\* Create that keeps a record already stored under the height.
CreateIfAbsent(store, bi) ==
    IF bi.height \in DOMAIN store THEN store
    ELSE DbInsert(store, bi.height, to_string(bi))

\* Create that adds the counts to those of a record already stored under the
\* height.
CreateAccumulate(store, bi) ==
    IF bi.height \in DOMAIN store
    THEN LET old == from_str(store[bi.height])
         IN  DbInsert(store, bi.height,
                      to_string([bi EXCEPT !.txs = (old.txs + bi.txs) % (U64_MAX + 1)]))
    ELSE DbInsert(store, bi.height, to_string(bi))

\* Create that stores the record under its count of valid transactions.
CreateUnderValidTxs(store, bi) == DbInsert(store, bi.valid_txs, to_string(bi))

\* The creation of a record: db.insert(bi.height, raw_data).
Create(store, bi) == DbInsert(store, bi.height, to_string(bi))

\* TmLine whose max_height is the height of the last record created.
TmLineLastHeight(l, store, lo, hi, checks, putFails) ==
    LET same == [pc |-> "tm", db |-> store, min_height |-> lo, max_height |-> hi,
                 io |-> FALSE]
        made == NewBlockInfo(l, checks)
        bi == made.bi
        lo2 == IF lo > bi.height THEN bi.height ELSE lo
        hi2 == bi.height
    IN  IF ~l.executed THEN same
        ELSE IF made.panic THEN [same EXCEPT !.pc = "panicked"]
        ELSE IF putFails
        THEN [pc |-> "panicked", db |-> store, min_height |-> lo2, max_height |-> hi2,
              io |-> TRUE]
        ELSE [pc |-> "tm", db |-> Create(store, bi),
              min_height |-> lo2, max_height |-> hi2, io |-> FALSE]

\* The body of the for loop over the tendermint log for one line: the next
\* position of the process, the store, the height range, and whether a store
\* operation failed.
TmLine(l, store, lo, hi, checks, putFails) ==
    LET same == [pc |-> "tm", db |-> store, min_height |-> lo, max_height |-> hi,
                 io |-> FALSE]
        made == NewBlockInfo(l, checks)
        bi == made.bi
        lo2 == IF lo > bi.height THEN bi.height ELSE lo
        hi2 == IF hi < bi.height THEN bi.height ELSE hi
    IN  IF ~l.executed THEN same
        ELSE IF made.panic THEN [same EXCEPT !.pc = "panicked"]
        ELSE IF putFails
        THEN [pc |-> "panicked", db |-> store, min_height |-> lo2, max_height |-> hi2,
              io |-> TRUE]
        ELSE [pc |-> "tm", db |-> Create(store, bi),
              min_height |-> lo2, max_height |-> hi2, io |-> FALSE]

----------------------------------------------------------------------------
\* The application-log pass: one line of the abcid log.
\* A line is [tps, long, words]: whether it contains "tps,", whether
\* line[52..] is in range, and the comma-separated fields of line[52..], each
\* a sequence of whitespace-separated tokens.

END_OF_BEGIN_BLOCK == <<Txt("end"), Txt("of"), Txt("begin_block")>>
END_OF_END_BLOCK == <<Txt("end"), Txt("of"), Txt("end_block")>>
END_OF_COMMIT == <<Txt("end"), Txt("of"), Txt("commit")>>

\* words.last().map(|w| w.trim())
LastWord(words) == words[Len(words)]

\* words[words.len() - 2].split_whitespace().collect::<Vec<_>>()[1].parse::<u64>():
\* None where the code panics (an index out of range, a failed parse).
TdHeight(words) ==
    IF Len(words) < 2 THEN None
    ELSE LET w == words[Len(words) - 1]
         IN  IF Len(w) < 2 THEN None ELSE ParseU64(w[2])

\* words[n].parse::<u64>() (n counted from 0): None where the code panics.
Field(words, n) ==
    IF Len(words) < n + 1 THEN None
    ELSE IF Len(words[n + 1]) # 1 THEN None
    ELSE ParseU64(words[n + 1][1])

\* SetPhase with += for =: the values are added to those the record holds.
SetPhaseAccumulate(bi, words) ==
    LET marker == LastWord(words)
        plus(a, b) == (a + b) % (U64_MAX + 1)
    IN  IF marker = END_OF_BEGIN_BLOCK
        THEN IF Field(words, 2) = None \/ Field(words, 3) = None THEN None
             ELSE Some([bi EXCEPT !.snapshot = plus(@, Unwrap(Field(words, 2))),
                                  !.begin = plus(@, Unwrap(Field(words, 3)))])
        ELSE IF marker = END_OF_END_BLOCK
        THEN IF Field(words, 2) = None THEN None
             ELSE Some([bi EXCEPT !.end = plus(@, Unwrap(Field(words, 2)))])
        ELSE IF Field(words, 3) = None \/ Field(words, 4) = None THEN None
             ELSE Some([bi EXCEPT !.commit_evm = plus(@, Unwrap(Field(words, 3))),
                                  !.commit = plus(@, Unwrap(Field(words, 4)))])

\* SetPhase on a fresh BlockInfo of the same height instead of the record
\* read from the store.
SetPhaseFresh(bi, words) ==
    LET marker == LastWord(words)
        fresh == [DefaultBlockInfo EXCEPT !.height = bi.height]
    IN  IF marker = END_OF_BEGIN_BLOCK
        THEN IF Field(words, 2) = None \/ Field(words, 3) = None THEN None
             ELSE Some([fresh EXCEPT !.snapshot = Unwrap(Field(words, 2)),
                                     !.begin = Unwrap(Field(words, 3))])
        ELSE IF marker = END_OF_END_BLOCK
        THEN IF Field(words, 2) = None THEN None
             ELSE Some([fresh EXCEPT !.end = Unwrap(Field(words, 2))])
        ELSE IF Field(words, 3) = None \/ Field(words, 4) = None THEN None
             ELSE Some([fresh EXCEPT !.commit_evm = Unwrap(Field(words, 3)),
                                     !.commit = Unwrap(Field(words, 4))])

\* The assignments of the three match arms: the record with the fields of
\* the marker's phase set, None where a parse panics.
SetPhase(bi, words) ==
    LET marker == LastWord(words)
    IN  IF marker = END_OF_BEGIN_BLOCK
        THEN IF Field(words, 2) = None \/ Field(words, 3) = None THEN None
             ELSE Some([bi EXCEPT !.snapshot = Unwrap(Field(words, 2)),
                                  !.begin = Unwrap(Field(words, 3))])
        ELSE IF marker = END_OF_END_BLOCK
        THEN IF Field(words, 2) = None THEN None
             ELSE Some([bi EXCEPT !.end = Unwrap(Field(words, 2))])
        ELSE IF Field(words, 3) = None \/ Field(words, 4) = None THEN None
             ELSE Some([bi EXCEPT !.commit_evm = Unwrap(Field(words, 3)),
                                  !.commit = Unwrap(Field(words, 4))])

\* The write-back of an updated record: db.insert(bi.height, new_raw).
WriteBack(store, bi) == DbInsert(store, bi.height, to_string(bi))

\* AbciLine that creates the record when the get finds none.
AbciLineUpsert(l, store, getFails, putFails) ==
    LET same == [pc |-> "abci", db |-> store, io |-> FALSE]
        panic == [pc |-> "panicked", db |-> store, io |-> FALSE]
        words == l.words
        marker == LastWord(words)
        height == TdHeight(words)
        got == DbGet(store, Unwrap(height), getFails)
        read == IF got.ok THEN from_str(got.val)
                ELSE [DefaultBlockInfo EXCEPT !.height = Unwrap(height)]
        bi == SetPhase(read, words)
    IN  IF ~l.tps THEN same
        ELSE IF ~l.long THEN panic
        ELSE IF marker \notin {END_OF_BEGIN_BLOCK, END_OF_END_BLOCK, END_OF_COMMIT} THEN same
        ELSE IF height = None THEN panic
        ELSE IF bi = None THEN panic
        ELSE IF putFails THEN [panic EXCEPT !.io = TRUE]
        ELSE [pc |-> "abci", db |-> WriteBack(store, Unwrap(bi)), io |-> FALSE]

\* The closure of for_each, with the filter before it, for one line: the next
\* position of the process, the store, and whether a store operation failed.
AbciLine(l, store, getFails, putFails) ==
    LET same == [pc |-> "abci", db |-> store, io |-> FALSE]
        panic == [pc |-> "panicked", db |-> store, io |-> FALSE]
        words == l.words
        marker == LastWord(words)
        height == TdHeight(words)
        got == DbGet(store, Unwrap(height), getFails)
        bi == SetPhase(from_str(got.val), words)
    IN  IF ~l.tps THEN same
        ELSE IF ~l.long THEN panic
        ELSE IF marker \notin {END_OF_BEGIN_BLOCK, END_OF_END_BLOCK, END_OF_COMMIT} THEN same
        ELSE IF height = None THEN panic
        ELSE IF ~got.ok THEN [same EXCEPT !.io = (got.err = "Io")]
        ELSE IF bi = None THEN panic
        ELSE IF putFails THEN [panic EXCEPT !.io = TRUE]
        ELSE [pc |-> "abci", db |-> WriteBack(store, Unwrap(bi)), io |-> FALSE]

----------------------------------------------------------------------------
\* ReportLine with unwrap_or_default(): a line for a height without a record.
ReportLineDefault(store, height, getFails) ==
    LET got == DbGet(store, height, getFails)
    IN  [out |-> <<Display(IF got.ok THEN from_str(got.val) ELSE DefaultBlockInfo)>>,
         io |-> (got.err = "Io")]

\* What one turn of for h in min_height..=max_height prints, and whether the
\* get failed.
ReportLine(store, height, getFails) ==
    LET got == DbGet(store, height, getFails)
    IN  [out |-> IF got.ok THEN <<Display(from_str(got.val))>> ELSE <<>>,
         io |-> (got.err = "Io")]

----------------------------------------------------------------------------
\* The inputs: sample lines of the two logs.

\* I[<time>] Executed block module=state height=<h> validTxs=<v> invalidTxs=<i>
ExecutedBlock(sec, ms, height, valid, invalid) ==
    [executed |-> TRUE, sliceable |-> TRUE, time |-> <<sec, ms>>,
     words |-> << <<Txt("I[time]")>>, <<Txt("Executed")>>, <<Txt("block")>>,
                  <<Txt("module"), Txt("state")>>, <<Txt("height"), Num(height)>>,
                  <<Txt("validTxs"), Num(valid)>>, <<Txt("invalidTxs"), Num(invalid)>> >>]

\* A line without the marker.
TmNoise ==
    [executed |-> FALSE, sliceable |-> TRUE, time |-> <<90, 0>>,
     words |-> << <<Txt("I[time]")>>, <<Txt("Committed")>>, <<Txt("state")>>,
                  <<Txt("height"), Num(9)>> >>]
\* Marked lines the parser cannot read: no height= token, a height that is
\* no number, a timestamp that is no time, a line shorter than 25 bytes.
TmNoHeight ==
    [ExecutedBlock(100, 0, 5, 3, 1) EXCEPT
        !.words = << <<Txt("Executed")>>, <<Txt("block")>>,
                     <<Txt("validTxs"), Num(3)>>, <<Txt("invalidTxs"), Num(1)>> >>]
TmBadHeight ==
    [ExecutedBlock(100, 0, 5, 3, 1) EXCEPT
        !.words = << <<Txt("Executed")>>, <<Txt("block")>>, <<Txt("height"), Txt("abc")>>,
                     <<Txt("validTxs"), Num(3)>>, <<Txt("invalidTxs"), Num(1)>> >>]
TmBadTime == [ExecutedBlock(100, 0, 5, 3, 1) EXCEPT !.time = <<>>]
TmShort == [ExecutedBlock(100, 0, 5, 3, 1) EXCEPT !.sliceable = FALSE]
\* A marked line whose two counts add up to u64::MAX + 1.
TmOverflow == ExecutedBlock(100, 0, 5, U64_MAX, 1)

\* Logs the parser can read but for one kind of broken line: heights 5, 6
\* (twice, the second time with an earlier timestamp) and 8.
TmLines ==
    {ExecutedBlock(100, 759, 5, 3, 1), ExecutedBlock(106, 10, 6, 5, 0),
     ExecutedBlock(99, 0, 6, 1, 1), ExecutedBlock(112, 0, 8, 0, 2), TmNoHeight}
\* Logs with every kind of line the parser skips or cannot read.
TmBroken ==
    {ExecutedBlock(100, 759, 5, 3, 1), TmNoise, TmNoHeight, TmBadHeight, TmBadTime,
     TmShort, TmOverflow}
TmFew == {ExecutedBlock(100, 759, 5, 3, 1), ExecutedBlock(106, 10, 6, 5, 0)}

\* tps,begin_block,<snapshot>,<begin>,td_height <h>,end of begin_block
BeginBlock(snapshot, begin, height) ==
    [tps |-> TRUE, long |-> TRUE,
     words |-> << <<Txt("tps")>>, <<Txt("begin_block")>>, <<Num(snapshot)>>, <<Num(begin)>>,
                  <<Txt("td_height"), Num(height)>>, END_OF_BEGIN_BLOCK >>]
\* tps,end_block,<end>,td_height <h>,end of end_block
EndBlock(end, height) ==
    [tps |-> TRUE, long |-> TRUE,
     words |-> << <<Txt("tps")>>, <<Txt("end_block")>>, <<Num(end)>>,
                  <<Txt("td_height"), Num(height)>>, END_OF_END_BLOCK >>]
\* tps,commit,<n>,<commit_evm>,<commit>,td_height <h>,end of commit
Commit(n, commit_evm, commit, height) ==
    [tps |-> TRUE, long |-> TRUE,
     words |-> << <<Txt("tps")>>, <<Txt("commit")>>, <<Num(n)>>, <<Num(commit_evm)>>,
                  <<Num(commit)>>, <<Txt("td_height"), Num(height)>>, END_OF_COMMIT >>]

\* Lines the pass skips (no "tps,", another trailing marker) or cannot read
\* (a field that is no number, a line shorter than 52 bytes).
AbciNoise == [tps |-> FALSE, long |-> TRUE, words |-> << <<Txt("deliver_tx")>> >>]
AbciOtherMarker ==
    [tps |-> TRUE, long |-> TRUE,
     words |-> << <<Txt("tps")>>, <<Txt("deliver_tx")>>, <<Num(3)>>,
                  <<Txt("end"), Txt("of"), Txt("deliver_tx")>> >>]
AbciBadField == [EndBlock(6, 5) EXCEPT !.words[3] = <<Txt("n/a")>>]
AbciShort == [EndBlock(6, 5) EXCEPT !.long = FALSE]

\* Updates of the three phases of height 5, a second end_block of height 5,
\* one of height 6, and a commit of height 7, which no consensus line creates.
AbciLines ==
    {BeginBlock(31, 32, 5), EndBlock(6, 5), Commit(2, 60, 62, 5), EndBlock(7, 5),
     EndBlock(4, 6), Commit(2, 61, 63, 7)}
AbciBroken == {EndBlock(6, 5), AbciNoise, AbciOtherMarker, AbciBadField, AbciShort}
AbciFew == {EndBlock(6, 5), BeginBlock(31, 32, 6)}

LogsUpTo(lines, n) == UNION {[1..k -> lines] : k \in 0..n}

----------------------------------------------------------------------------
VARIABLES
    tm_log,           \* the lines of the tendermint log file
    abci_log,         \* the lines of the abcid log file
    load,             \* the load argument
    overflow_checks,  \* whether the build checks integer overflow
    faulty,           \* whether store and file operations may fail
    pc,               \* where the process is: start, tm, abci, report, done, panicked, error
    pos,              \* the next line of the log being read, from 1
    min_height,
    max_height,
    h,                \* the height the report loop is at
    db,               \* the record store: key -> serialized BlockInfo
    stdout,           \* the lines printed by this run
    io_failed,        \* history: a store operation of this run failed
    tm_db,            \* history: the store when this run's consensus pass ended
    prev              \* history: how the previous run ended

vars ==
    <<tm_log, abci_log, load, overflow_checks, faulty, pc, pos, min_height, max_height,
      h, db, stdout, io_failed, tm_db, prev>>

inputs == <<tm_log, abci_log, load, overflow_checks, faulty>>

\* The outcomes of an operation that can fail.
Fails == IF faulty THEN BOOLEAN ELSE {FALSE}

\* The entry of a first run: the two files, the load flag, the store as found.
Entry(tmLogs, abciLogs, mayFail, loads, stores) ==
    /\ tm_log \in tmLogs
    /\ abci_log \in abciLogs
    /\ load \in loads
    /\ overflow_checks \in BOOLEAN
    /\ faulty = mayFail
    /\ db \in stores
    /\ prev = None
    /\ pc = "start"
    /\ pos = 1
    /\ min_height = U64_MAX
    /\ max_height = U64_MIN
    /\ h = U64_MIN
    /\ stdout = <<>>
    /\ io_failed = FALSE
    /\ tm_db = None

\* A first run of the command without --load on an empty store.
Setup(tmLines, abciLines, mayFail) ==
    Entry(LogsUpTo(tmLines, MaxTmLines), LogsUpTo(abciLines, MaxAbciLines), mayFail,
          {FALSE}, {EmptyDb})

\* A store left by an earlier run on another log: the record of height 5.
StoredDb == Create(EmptyDb, NewBlockInfo(ExecutedBlock(100, 759, 5, 3, 1), FALSE).bi)
\* Logs for a run on a store that may hold a record: a consensus log that may
\* have no marked line, updates of heights 5 and 6.
TmSparse == {TmNoise, ExecutedBlock(106, 10, 6, 5, 0)}
AbciSparse == {EndBlock(6, 5), BeginBlock(31, 32, 5), EndBlock(4, 6)}
\* The three phase updates of height 5 in every order.
ThreePhases == {BeginBlock(31, 32, 5), EndBlock(6, 5), Commit(2, 60, 62, 5)}
PhaseOrders ==
    {log \in [1..Cardinality(ThreePhases) -> ThreePhases] :
        \A a, b \in DOMAIN log : a # b => log[a] # log[b]}

Init == Setup(TmLines, AbciLines, FALSE)
InitStored ==
    Entry(LogsUpTo(TmSparse, MaxTmLines), LogsUpTo(AbciSparse, MaxAbciLines), FALSE,
          BOOLEAN, {EmptyDb, StoredDb})
InitPhases == Entry(LogsUpTo(TmFew, MaxTmLines), PhaseOrders, FALSE, {FALSE}, {EmptyDb})
InitBroken == Setup(TmBroken, AbciBroken, FALSE)
InitFaulty == Setup(TmFew, AbciFew, TRUE)

\* Start with min_height initialised to u64::MIN.
StartZeroMin ==
    /\ pc = "start"
    /\ stdout' = <<[args |-> load]>>
    /\ min_height' = U64_MIN
    /\ max_height' = U64_MIN
    /\ \E connectFails \in Fails, openFails \in Fails :
          /\ pc' = IF connectFails \/ openFails THEN "error" ELSE "tm"
          /\ io_failed' = connectFails
    /\ UNCHANGED <<inputs, pos, h, db, tm_db, prev>>

\* println!, Db::new(..)?, the two locals, File::open(tendermint)?
Start ==
    /\ pc = "start"
    /\ stdout' = <<[args |-> load]>>
    /\ min_height' = U64_MAX
    /\ max_height' = U64_MIN
    /\ \E connectFails \in Fails, openFails \in Fails :
          /\ pc' = IF connectFails \/ openFails THEN "error" ELSE "tm"
          /\ io_failed' = connectFails
    /\ UNCHANGED <<inputs, pos, h, db, tm_db, prev>>

\* One turn of the loop over the tendermint log; at its end,
\* File::open(abcid)?.
TmStep ==
    /\ pc = "tm"
    /\ IF pos > Len(tm_log)
       THEN /\ \E openFails \in Fails : pc' = IF openFails THEN "error" ELSE "abci"
            /\ pos' = 1
            /\ tm_db' = Some(db)
            /\ UNCHANGED <<db, min_height, max_height, io_failed>>
       ELSE /\ \E putFails \in Fails :
                 LET o == TmLine(tm_log[pos], db, min_height, max_height,
                                 overflow_checks, putFails)
                 IN  /\ pc' = o.pc
                     /\ db' = o.db
                     /\ min_height' = o.min_height
                     /\ max_height' = o.max_height
                     /\ io_failed' = (io_failed \/ o.io)
                     /\ pos' = IF o.pc = "tm" THEN pos + 1 ELSE pos
            /\ UNCHANGED tm_db
    /\ UNCHANGED <<inputs, h, stdout, prev>>

\* AbciStep that goes back to the first line of the tendermint log when the
\* abcid log is exhausted.
AbciStepThenTm ==
    /\ pc = "abci"
    /\ IF pos > Len(abci_log)
       THEN /\ pc' = "tm"
            /\ pos' = 1
            /\ UNCHANGED <<db, h, io_failed>>
       ELSE /\ \E getFails \in Fails, putFails \in Fails :
                 LET o == AbciLine(abci_log[pos], db, getFails, putFails)
                 IN  /\ pc' = o.pc
                     /\ db' = o.db
                     /\ io_failed' = (io_failed \/ o.io)
                     /\ pos' = IF o.pc = "abci" THEN pos + 1 ELSE pos
            /\ UNCHANGED h
    /\ UNCHANGED <<inputs, min_height, max_height, stdout, tm_db, prev>>

\* One turn of the loop over the abcid log; at its end the report loop starts
\* at min_height.
AbciStep ==
    /\ pc = "abci"
    /\ IF pos > Len(abci_log)
       THEN /\ pc' = "report"
            /\ h' = min_height
            /\ UNCHANGED <<db, pos, io_failed>>
       ELSE /\ \E getFails \in Fails, putFails \in Fails :
                 LET o == AbciLine(abci_log[pos], db, getFails, putFails)
                 IN  /\ pc' = o.pc
                     /\ db' = o.db
                     /\ io_failed' = (io_failed \/ o.io)
                     /\ pos' = IF o.pc = "abci" THEN pos + 1 ELSE pos
            /\ UNCHANGED h
    /\ UNCHANGED <<inputs, min_height, max_height, stdout, tm_db, prev>>

\* ReportStep that writes the record it prints back with block_time Some(0).
ReportStepWrites ==
    /\ pc = "report"
    /\ IF h > max_height
       THEN /\ pc' = "done"
            /\ UNCHANGED <<h, stdout, io_failed, db>>
       ELSE /\ \E getFails \in Fails :
                 LET o == ReportLine(db, h, getFails)
                 IN  /\ stdout' = stdout \o o.out
                     /\ io_failed' = (io_failed \/ o.io)
                     /\ db' = IF o.out = <<>> THEN db
                              ELSE WriteBack(db, [from_str(db[h]) EXCEPT !.block_time = Some(0)])
            /\ h' = h + 1
            /\ UNCHANGED pc
    /\ UNCHANGED <<inputs, pos, min_height, max_height, tm_db, prev>>

\* One turn of the report loop; Ok(()) when the range is exhausted.
ReportStep ==
    /\ pc = "report"
    /\ IF h > max_height
       THEN /\ pc' = "done"
            /\ UNCHANGED <<h, stdout, io_failed>>
       ELSE /\ \E getFails \in Fails :
                 LET o == ReportLine(db, h, getFails)
                 IN  /\ stdout' = stdout \o o.out
                     /\ io_failed' = (io_failed \/ o.io)
            /\ h' = h + 1
            /\ UNCHANGED pc
    /\ UNCHANGED <<inputs, pos, min_height, max_height, db, tm_db, prev>>

\* The command is run again, on the same files and the store as it is.
Rerun ==
    /\ pc \in {"done", "panicked", "error"}
    /\ prev' = Some([pc |-> pc, db |-> db, stdout |-> stdout, tm_db |-> tm_db])
    /\ pc' = "start"
    /\ pos' = 1
    /\ min_height' = U64_MAX
    /\ max_height' = U64_MIN
    /\ h' = U64_MIN
    /\ stdout' = <<>>
    /\ io_failed' = FALSE
    /\ tm_db' = None
    /\ UNCHANGED <<inputs, db>>

Next == Start \/ TmStep \/ AbciStep \/ ReportStep \/ Rerun

\* The store and the files do not fail; the logs are TmLines and AbciLines.
Spec == Init /\ [][Next]_vars
\* The store and the files do not fail; the logs hold broken lines.
SpecBroken == InitBroken /\ [][Next]_vars
\* Store and file operations may fail.
SpecFaulty == InitFaulty /\ [][Next]_vars
\* With or without --load, on a store that may already hold a record.
SpecStored == InitStored /\ [][Next]_vars
\* The three phase updates of one height in every order.
SpecPhases == InitPhases /\ [][Next]_vars

----------------------------------------------------------------------------
\* Helpers of the properties.

\* The stored record under key k.
Rec(store, k) == from_str(store[k])
\* The lines printed by the report loop: stdout after the println! of the arguments.
ReportLines == IF stdout = <<>> THEN <<>> ELSE Tail(stdout)
\* The application-log line the next AbciStep handles is an update of one of
\* the three phases with a readable td_height.
AtUpdate ==
    /\ pc = "abci"
    /\ pos <= Len(abci_log)
    /\ abci_log[pos].tps
    /\ abci_log[pos].long
    /\ LastWord(abci_log[pos].words) \in {END_OF_BEGIN_BLOCK, END_OF_END_BLOCK, END_OF_COMMIT}
    /\ TdHeight(abci_log[pos].words) # None
UpdateHeight == Unwrap(TdHeight(abci_log[pos].words))
Fields ==
    {"height", "timestamp", "txs", "valid_txs", "block_time",
     "begin", "snapshot", "end", "commit", "commit_evm"}
PhaseFields(marker) ==
    IF marker = END_OF_BEGIN_BLOCK THEN {"snapshot", "begin"}
    ELSE IF marker = END_OF_END_BLOCK THEN {"end"}
    ELSE {"commit_evm", "commit"}

----------------------------------------------------------------------------
\* C1: after a completed run, for adjacent stored heights k-1 and k, the
\* record at k has block_time = timestamp(k) - timestamp(k-1) when that is
\* not negative and block_time unset when it is, and the report line of k
\* prints that value (0 when unset).
C1_BlockTimeDerived ==
    pc = "done" =>
        \A k \in DOMAIN db :
            (k - 1) \in DOMAIN db =>
                LET cur == Rec(db, k)
                    before == Rec(db, k - 1)
                    want == IF cur.timestamp >= before.timestamp
                            THEN Some(cur.timestamp - before.timestamp) ELSE None
                IN  /\ cur.block_time = want
                    /\ \A n \in 1..Len(ReportLines) :
                          ReportLines[n][1] = k =>
                              ReportLines[n][2] = (IF want = None THEN 0 ELSE Unwrap(want))

\* C2: an update of one phase for height N changes only that phase's fields
\* of the record at N: its other fields, and every record at another height,
\* stay as they were.
C2_FieldIsolation ==
    [][AtUpdate =>
          LET N == UpdateHeight
              own == PhaseFields(LastWord(abci_log[pos].words))
          IN  /\ \A k \in ((DOMAIN db) \cup (DOMAIN db')) \ {N} :
                    k \in DOMAIN db /\ k \in DOMAIN db' /\ db'[k] = db[k]
              /\ N \in DOMAIN db =>
                    /\ N \in DOMAIN db'
                    /\ \A f \in Fields \ own : Rec(db', N)[f] = Rec(db, N)[f]]_vars

\* C2's case: two records are stored and one of them holds the values of two
\* different phases.
C2_Witness ==
    /\ pc = "abci"
    /\ \E k \in DOMAIN db, other \in DOMAIN db :
          /\ k # other
          /\ Rec(db, k).snapshot # 0
          /\ Rec(db, k).end # 0

\* C3: an update for a height with no stored record leaves the store as it
\* is, raises nothing, and the pass goes on with the next line.
C3_UnknownHeightNoOp ==
    [][(AtUpdate /\ UpdateHeight \notin DOMAIN db) =>
          /\ db' = db
          /\ pc' = "abci"
          /\ pos' = pos + 1]_vars

\* C3's case: the line just handled was an update for a height that has no
\* record, in a store that holds others.
C3_Witness ==
    /\ pc = "abci"
    /\ pos > 1
    /\ DOMAIN db # {}
    /\ LET l == abci_log[pos - 1]
       IN  /\ l.tps
           /\ LastWord(l.words) = END_OF_COMMIT
           /\ TdHeight(l.words) # None
           /\ Unwrap(TdHeight(l.words)) \notin DOMAIN db

\* C4: the report lines are strictly increasing in height.
C4_ReportStrictlyIncreasing ==
    \A a, b \in 1..Len(ReportLines) : a < b => ReportLines[a][1] < ReportLines[b][1]

\* C4's case: a finished report of two lines.
C4_Witness == pc = "done" /\ Len(ReportLines) >= 2

\* C5: the report holds exactly one line for each height of the scanned part
\* of [min_height, max_height] that has a record, and none for another.
Scanned == {k \in min_height..(h - 1) : k \in DOMAIN db}
C5_OneLinePerRecord ==
    pc \in {"report", "done"} =>
        /\ pc = "done" => Scanned = {k \in min_height..max_height : k \in DOMAIN db}
        /\ Len(ReportLines) = Cardinality(Scanned)
        /\ \A k \in Scanned : \E n \in 1..Len(ReportLines) : ReportLines[n][1] = k
        /\ \A n \in 1..Len(ReportLines) : ReportLines[n][1] \in Scanned

\* C5's case: a finished report over a range with a missing height, with a
\* line printed for a height after the gap.
C5_Witness ==
    /\ pc = "done"
    /\ \E gap \in min_height..max_height :
          /\ gap \notin DOMAIN db
          /\ \E n \in 1..Len(ReportLines) : ReportLines[n][1] > gap

\* The consensus-log line the next TmStep handles is marked "Executed block".
AtExecuted == pc = "tm" /\ pos <= Len(tm_log) /\ tm_log[pos].executed
\* Its timestamp, height, validTxs or invalidTxs cannot be read.
Unparseable(l) == ~l.sliceable \/ \E n \in 1..4 : ParseBlk(l)[n] = None
\* The run has ended: Ok(()), a panic, or an Err returned by the ? operator.
Ended == pc \in {"done", "panicked", "error"}

\* C6: a marked line with readable height, validTxs and invalidTxs leaves
\* under its height a record with txs = validTxs + invalidTxs and
\* valid_txs = validTxs.
C6_TxsIsSum ==
    [][(AtExecuted /\ ~Unparseable(tm_log[pos])) =>
          LET blk == ParseBlk(tm_log[pos])
          IN  /\ pc' = "tm"
              /\ Unwrap(blk[2]) \in DOMAIN db'
              /\ Rec(db', Unwrap(blk[2])).txs = Unwrap(blk[3]) + Unwrap(blk[4])
              /\ Rec(db', Unwrap(blk[2])).valid_txs = Unwrap(blk[3])]_vars

\* C7: the store at the end of the consensus pass of a run is the store at
\* the end of the consensus pass of the run before it, and the pass ends the
\* same way.
C7_ConsensusPassIdempotent ==
    (prev # None /\ (tm_db # None \/ Ended)) => tm_db = Unwrap(prev).tm_db

\* C7's case: the consensus pass of a second run has ended, on a store in
\* which the application pass of the first run had changed records.
C7_Witness ==
    /\ prev # None
    /\ tm_db # None
    /\ Unwrap(prev).tm_db # None
    /\ Unwrap(prev).db # Unwrap(Unwrap(prev).tm_db)

\* C8: a run on the store left by the run before it ends with the same
\* store and the same output.
C8_RerunIdempotent ==
    (prev # None /\ Ended) =>
        /\ pc = Unwrap(prev).pc
        /\ db = Unwrap(prev).db
        /\ stdout = Unwrap(prev).stdout

\* C8's case: a second run has finished its report, of two lines, over
\* records that an application-log update changed.
C8_Witness ==
    /\ prev # None
    /\ pc = "done"
    /\ Len(ReportLines) >= 2
    /\ \E k \in DOMAIN db : Rec(db, k).end # 0

\* C9: a marked line that cannot be read stops the run at that line: no
\* record is written, nothing more of either log is handled, nothing is
\* reported.
C9_UnparseableAborts ==
    [][/\ (AtExecuted /\ Unparseable(tm_log[pos])) =>
             (pc' = "panicked" /\ pos' = pos /\ db' = db /\ stdout' = stdout)
       /\ pc = "panicked" => (pc' = "start" /\ db' = db)]_vars

\* C9's case: the run has stopped at an unreadable marked line, with lines
\* of both logs still unread.
C9_Witness ==
    /\ pc = "panicked"
    /\ tm_db = None
    /\ pos < Len(tm_log)
    /\ tm_log[pos].executed
    /\ Unparseable(tm_log[pos])
    /\ tm_log[pos + 1].executed
    /\ abci_log # <<>>
    /\ Len(ReportLines) = 0

\* C10: a run in which a store operation failed has stopped; it does not go
\* on as if the record were absent.
C10_StoreFailureAborts == io_failed => pc \in {"panicked", "error"}

\* C11: with load set the run ingests nothing: it reads neither log and
\* creates or updates no record.
C11_LoadSkipsIngestion ==
    [][load => (pc' \notin {"tm", "abci"} /\ db' = db)]_vars

\* C12: within a run every record creation comes before the first
\* application-log update and every update before the first report line: the
\* process never goes back to an earlier pass, a line of the consensus log is
\* handled only while that pass has not ended, an update only after it ended
\* and before anything is reported, and a report line is printed only by the
\* report loop, which writes nothing.
Rank(p) ==
    CASE p = "start" -> 0 [] p = "tm" -> 1 [] p = "abci" -> 2 [] p = "report" -> 3
      [] p = "done" -> 4 [] OTHER -> 5
C12_PassOrdering ==
    [][/\ Rank(pc') >= Rank(pc) \/ pc' = "start"
       /\ AtExecuted => (tm_db = None /\ ReportLines = <<>>)
       /\ AtUpdate => (tm_db # None /\ ReportLines = <<>>)
       /\ db' # db => pc \in {"tm", "abci"}
       /\ (pc # "start" /\ pc' # "start" /\ stdout' # stdout) =>
             (pc = "report" /\ tm_db # None /\ db' = db)]_vars

\* C12's case: a first run that created two records, applied an update to
\* one and printed both has ended.
C12_Witness ==
    /\ prev = None
    /\ pc = "done"
    /\ Len(ReportLines) >= 2
    /\ \E k \in DOMAIN db : Rec(db, k).end # 0

\* The record holds the values the update line carries for its phase.
HoldsUpdate(rec, words) ==
    LET marker == LastWord(words)
    IN  IF marker = END_OF_BEGIN_BLOCK
        THEN rec.snapshot = Unwrap(Field(words, 2)) /\ rec.begin = Unwrap(Field(words, 3))
        ELSE IF marker = END_OF_END_BLOCK
        THEN rec.end = Unwrap(Field(words, 2))
        ELSE rec.commit_evm = Unwrap(Field(words, 3)) /\ rec.commit = Unwrap(Field(words, 4))
\* The fields no application-log update is about.
CreationFields == {"height", "timestamp", "txs", "valid_txs", "block_time"}

\* C13: after a begin_block, an end_block and a commit update of one height
\* in any order, the record holds the values of all three and its other
\* fields are those it was created with: the same record for every order.
C13_PhasesCommute ==
    (pc \in {"report", "done"}) =>
        \A k \in DOMAIN db :
            /\ \A n \in 1..Len(abci_log) :
                  TdHeight(abci_log[n].words) = Some(k) =>
                      HoldsUpdate(Rec(db, k), abci_log[n].words)
            /\ \A f \in CreationFields : Rec(db, k)[f] = Rec(Unwrap(tm_db), k)[f]

\* C13's case: the three updates came commit first and begin_block last, and
\* the record they are for is stored.
C13_Witness ==
    /\ pc = "done"
    /\ Len(abci_log) = 3
    /\ LastWord(abci_log[1].words) = END_OF_COMMIT
    /\ LastWord(abci_log[3].words) = END_OF_BEGIN_BLOCK
    /\ \E k \in DOMAIN db : TdHeight(abci_log[1].words) = Some(k)

\* C14: an update of a stored record leaves in its phase fields the values
\* of its own line, whatever they held (the later of two updates wins, nothing
\* is summed), and the same line applied twice in a row leaves the store as
\* after the first time.
C14_LastWriteWins ==
    [][(AtUpdate /\ UpdateHeight \in DOMAIN db /\ pc' = "abci") =>
          /\ UpdateHeight \in DOMAIN db'
          /\ HoldsUpdate(Rec(db', UpdateHeight), abci_log[pos].words)
          /\ (pos > 1 /\ abci_log[pos - 1] = abci_log[pos]) => db' = db]_vars

\* C14's case: two updates of the same phase of a stored height with
\* different values have been applied.
C14_Witness ==
    /\ pc = "abci"
    /\ pos = 3
    /\ abci_log[1] # abci_log[2]
    /\ LastWord(abci_log[1].words) = LastWord(abci_log[2].words)
    /\ TdHeight(abci_log[1].words) = TdHeight(abci_log[2].words)
    /\ Unwrap(TdHeight(abci_log[2].words)) \in DOMAIN db

\* The heights of the marked lines of the consensus log (all readable once
\* the pass has ended).
CreatedHeights ==
    {Unwrap(ParseBlk(tm_log[n])[2]) : n \in {m \in 1..Len(tm_log) : tm_log[m].executed}}
Least(S) == CHOOSE x \in S : \A y \in S : x <= y
Greatest(S) == CHOOSE x \in S : \A y \in S : x >= y

\* C15: once the consensus pass over a log with a marked line has ended,
\* min_height is the least and max_height the greatest height it created, and
\* they stay so through the application pass and the report.
C15_RangeIsCreatedRange ==
    (tm_db # None /\ CreatedHeights # {}) =>
        /\ min_height = Least(CreatedHeights)
        /\ max_height = Greatest(CreatedHeights)
        /\ CreatedHeights \subseteq DOMAIN db

\* C15's case: the pass created a greater height before a smaller one, and an
\* application-log line has been handled since.
C15_Witness ==
    /\ pc = "abci"
    /\ pos > 1
    /\ Len(tm_log) = 2
    /\ tm_log[1].executed /\ tm_log[2].executed
    /\ Unwrap(ParseBlk(tm_log[1])[2]) > Unwrap(ParseBlk(tm_log[2])[2])

\* C16: from an empty store on, every stored value is a record whose height
\* is the key it is stored under; so no two records share a height and no
\* update moves a record to another height.
C16_HeightIsKey == \A k \in DOMAIN db : Rec(db, k).height = k

\* C16's case: two records are stored and an update of one has been written
\* back.
C16_Witness ==
    /\ pc = "report"
    /\ Cardinality(DOMAIN db) >= 2
    /\ \E k \in DOMAIN db : Rec(db, k).commit # 0

\* C17: the record at min_height has block_time unset, and so has every
\* record whose predecessor height is absent or has a later timestamp: no
\* stored block_time stands for a negative duration.
C17_NoNegativeBlockTime ==
    \A k \in DOMAIN db :
        (k = min_height \/ (k - 1) \notin DOMAIN db
            \/ Rec(db, k - 1).timestamp > Rec(db, k).timestamp) =>
                Rec(db, k).block_time = None

\* C17's case: a finished run over two adjacent heights, the second with the
\* earlier timestamp.
C17_Witness ==
    /\ pc = "done"
    /\ min_height \in DOMAIN db
    /\ (min_height + 1) \in DOMAIN db
    /\ Rec(db, min_height).timestamp > Rec(db, min_height + 1).timestamp

\* C18: no step removes a key from the store, and a step of the report
\* loop leaves the store as it is.
C18_NoDeleteReportReadOnly ==
    [][/\ DOMAIN db \subseteq DOMAIN db'
       /\ pc = "report" => db' = db]_vars

\* C18's case: a report of two lines has ended over a store that held a
\* record before the run and got another in it.
C18_Witness ==
    /\ pc = "done"
    /\ prev = None
    /\ Len(ReportLines) >= 1
    /\ DOMAIN StoredDb \subseteq DOMAIN db
    /\ DOMAIN db # DOMAIN StoredDb

\* C19: a step of the application pass changes no key of the store and no
\* height, timestamp, txs, valid_txs or block_time of a record.
C19_UpdatesKeepCreationFields ==
    [][pc = "abci" =>
          /\ DOMAIN db' = DOMAIN db
          /\ \A k \in DOMAIN db : \A f \in CreationFields : Rec(db', k)[f] = Rec(db, k)[f]]_vars

\* C19's case: the pass has written an update to a record with counts and has
\* handled an update for a height without a record.
C19_Witness ==
    /\ pc = "report"
    /\ \E k \in DOMAIN db : Rec(db, k).begin # 0 /\ Rec(db, k).txs # 0
    /\ \E n \in 1..Len(abci_log) : Unwrap(TdHeight(abci_log[n].words)) \notin DOMAIN db

\* No line of the consensus log is marked "Executed block".
NoMarked == \A n \in 1..Len(tm_log) : ~tm_log[n].executed

\* C20: without a marked line min_height stays u64::MAX and max_height 0, the
\* report loop has no turn and prints nothing, whatever the store holds.
C20_EmptyRangeWithoutMarkedLine ==
    (NoMarked /\ pc \in {"tm", "abci", "report", "done"}) =>
        /\ min_height = U64_MAX
        /\ max_height = U64_MIN
        /\ ReportLines = <<>>
        /\ pc = "report" => h > max_height

\* C20's case: a run without a marked line has ended on a store that holds a
\* record to which it applied an update.
C20_Witness ==
    /\ pc = "done"
    /\ NoMarked
    /\ \E k \in DOMAIN db : Rec(db, k).end # 0

====
